---- MODULE Spec2Model ----
(***************************************************************************)
(* Model of solver.py: the BoardState grid with its candidate bitmasks,    *)
(* the constraint propagation (fast_forward), the branch generator         *)
(* (create_children), the best-first search loop of Solver.solve and the   *)
(* integrity checks of Solver.validate_solution.                           *)
(***************************************************************************)
EXTENDS Integers, Sequences, FiniteSets, TLC

\* ------------------------------------------------------------------------
\* Program constants
\* ------------------------------------------------------------------------
ALL_VALID == 511

SIZE == 9

BOX == 3

ROW_TOTAL == 45

Idx == 0 .. (SIZE - 1)

Digits == 1 .. SIZE

\* ------------------------------------------------------------------------
\* A grid is a list of 9 rows of 9 cells, as in the program; a Python list is
\* a sequence here, so the cell (r, c) of the program is grid[r + 1][c + 1].
\*
\* Bounds of the model: the input grids are a solved grid (BaseRows) whose
\* four Pool cells hold 0 or a digit at most MaxDelta away from the solved
\* value, with the first k <= MaxBlanks cells of BlankSeq emptied as well,
\* plus the all-zero grid.
\* ------------------------------------------------------------------------
MaxDelta == 1

MaxBlanks == 1

MaxPlaced == 2

BaseRows ==
  << <<5,3,4,6,7,8,9,1,2>>,
     <<6,7,2,1,9,5,3,4,8>>,
     <<1,9,8,3,4,2,5,6,7>>,
     <<8,5,9,7,6,1,4,2,3>>,
     <<4,2,6,8,5,3,7,9,1>>,
     <<7,1,3,9,2,4,8,5,6>>,
     <<9,6,1,5,3,7,2,8,4>>,
     <<2,8,7,4,1,9,6,3,5>>,
     <<3,4,5,2,8,6,1,7,9>> >>

Pool == << <<0, 3>>, <<0, 4>>, <<3, 3>>, <<3, 4>> >>

BlankSeq == << <<3, 1>>, <<1, 5>>, <<7, 3>> >>

Row(v) == <<v, v, v, v, v, v, v, v, v>>

Rows(v) == Row(Row(v))

AllZero == Rows(0)

Near(v) == {0} \cup {w \in Digits : w - v <= MaxDelta /\ v - w <= MaxDelta}

\* grid with the cells cells[i .. Len(cells)] overwritten by vals[i .. Len(cells)]
RECURSIVE Overwrite(_, _, _, _)
Overwrite(grid, cells, vals, i) ==
  IF i > Len(cells) THEN grid
  ELSE Overwrite([grid EXCEPT ![cells[i][1] + 1][cells[i][2] + 1] = vals[i]],
                 cells, vals, i + 1)

Grid(f, k) ==
  Overwrite(Overwrite(BaseRows, Pool, f, 1), SubSeq(BlankSeq, 1, k), [i \in 1 .. k |-> 0], 1)

Inputs ==
  {AllZero} \cup
  {Grid(f, k) : f \in {g \in [1 .. Len(Pool) -> 0 .. SIZE] :
                         \A i \in 1 .. Len(Pool) : g[i] \in Near(BaseRows[Pool[i][1] + 1][Pool[i][2] + 1])},
                k \in 0 .. (IF MaxBlanks < Len(BlankSeq) THEN MaxBlanks ELSE Len(BlankSeq))}

\* the digits the solved grid holds in the Pool cells
PoolDigits == {BaseRows[Pool[i][1] + 1][Pool[i][2] + 1] : i \in 1 .. Len(Pool)}

\* the input grids whose Pool cells are empty or hold one of the PoolDigits
GridInputs ==
  {g \in Inputs : \A i \in 1 .. Len(Pool) :
                     g[Pool[i][1] + 1][Pool[i][2] + 1] \in {0} \cup PoolDigits}

\* ------------------------------------------------------------------------
\* Bit-string helpers
\* ------------------------------------------------------------------------
\* bit i (0 = least significant) of the 9-bit string x
Bit(x, i) == (x \div (2 ^ i)) % 2

\* the number of 1 bits of the octal digit a: Count3[a + 1]
Count3 == <<0, 1, 1, 2, 1, 2, 2, 3>>

\* bin(x).count("1") for a 9-bit string, one octal digit at a time
popcount(x) == Count3[(x % 8) + 1] + Count3[((x \div 8) % 8) + 1] + Count3[(x \div 64) + 1]

\* the loop of get_vals_as_list appends val = i + 1 for every set bit i, in
\* increasing order
get_vals_as_list(bstr) == SelectSeq(<<1, 2, 3, 4, 5, 6, 7, 8, 9>>, LAMBDA val : Bit(bstr, val - 1) = 1)

\* a & b for the octal digits a, b: And3[a + 1][b + 1]
And3 ==
  << <<0, 0, 0, 0, 0, 0, 0, 0>>,
     <<0, 1, 0, 1, 0, 1, 0, 1>>,
     <<0, 0, 2, 2, 0, 0, 2, 2>>,
     <<0, 1, 2, 3, 0, 1, 2, 3>>,
     <<0, 0, 0, 0, 4, 4, 4, 4>>,
     <<0, 1, 0, 1, 4, 5, 4, 5>>,
     <<0, 0, 2, 2, 4, 4, 6, 6>>,
     <<0, 1, 2, 3, 4, 5, 6, 7>> >>

\* x & y for 9-bit strings, one octal digit at a time
BitAnd(x, y) ==
  And3[(x % 8) + 1][(y % 8) + 1]
    + 8 * And3[((x \div 8) % 8) + 1][((y \div 8) % 8) + 1]
    + 64 * And3[(x \div 64) + 1][(y \div 64) + 1]

\* ------------------------------------------------------------------------
\* BoardState
\* ------------------------------------------------------------------------
\* for c in range(9): possible_vals[row][c] &= val_mask
clear_row(pv, row, val_mask) ==
  [pv EXCEPT ![row + 1] =
     <<BitAnd(@[1], val_mask), BitAnd(@[2], val_mask), BitAnd(@[3], val_mask),
       BitAnd(@[4], val_mask), BitAnd(@[5], val_mask), BitAnd(@[6], val_mask),
       BitAnd(@[7], val_mask), BitAnd(@[8], val_mask), BitAnd(@[9], val_mask)>>]

\* for r in range(9): possible_vals[r][col] &= val_mask
clear_col(pv, col, val_mask) ==
  [pv EXCEPT ![1][col + 1] = BitAnd(@, val_mask), ![2][col + 1] = BitAnd(@, val_mask),
             ![3][col + 1] = BitAnd(@, val_mask), ![4][col + 1] = BitAnd(@, val_mask),
             ![5][col + 1] = BitAnd(@, val_mask), ![6][col + 1] = BitAnd(@, val_mask),
             ![7][col + 1] = BitAnd(@, val_mask), ![8][col + 1] = BitAnd(@, val_mask),
             ![9][col + 1] = BitAnd(@, val_mask)]

\* for r in range(start_row, end_row): for c in range(start_col, end_col):
\*     possible_vals[r][c] &= val_mask
clear_box(pv, start_row, start_col, val_mask) ==
  [pv EXCEPT ![start_row + 1][start_col + 1] = BitAnd(@, val_mask),
             ![start_row + 1][start_col + 2] = BitAnd(@, val_mask),
             ![start_row + 1][start_col + 3] = BitAnd(@, val_mask),
             ![start_row + 2][start_col + 1] = BitAnd(@, val_mask),
             ![start_row + 2][start_col + 2] = BitAnd(@, val_mask),
             ![start_row + 2][start_col + 3] = BitAnd(@, val_mask),
             ![start_row + 3][start_col + 1] = BitAnd(@, val_mask),
             ![start_row + 3][start_col + 2] = BitAnd(@, val_mask),
             ![start_row + 3][start_col + 3] = BitAnd(@, val_mask)]

\* mark_value_invalid without line 133 (the cell's own candidates are kept)
mark_value_invalid_keeps_own(s, row, col, val) ==
  LET val_mask == 511 - 2 ^ (val - 1)
      start_row == BOX * (row \div BOX)
      start_col == BOX * (col \div BOX)
  IN  [s EXCEPT !.possible_vals =
         clear_box(clear_col(clear_row(s.possible_vals, row, val_mask), col, val_mask),
                   start_row, start_col, val_mask)]

\* mark_value_invalid without the loop over the column (lines 140-142)
mark_value_invalid_no_col(s, row, col, val) ==
  LET val_mask == 511 - 2 ^ (val - 1)
      start_row == BOX * (row \div BOX)
      start_col == BOX * (col \div BOX)
      pv0 == [s.possible_vals EXCEPT ![row + 1][col + 1] = 0]
  IN  [s EXCEPT !.possible_vals =
         clear_box(clear_row(pv0, row, val_mask), start_row, start_col, val_mask)]

\* mark_value_invalid without the loop over the 3x3 square (lines 144-149)
mark_value_invalid_no_box(s, row, col, val) ==
  LET val_mask == 511 - 2 ^ (val - 1)
      pv0 == [s.possible_vals EXCEPT ![row + 1][col + 1] = 0]
  IN  [s EXCEPT !.possible_vals = clear_col(clear_row(pv0, row, val_mask), col, val_mask)]

mark_value_invalid(s, row, col, val) ==
  LET val_mask == 511 - 2 ^ (val - 1)
      start_row == BOX * (row \div BOX)
      start_col == BOX * (col \div BOX)
      pv0 == [s.possible_vals EXCEPT ![row + 1][col + 1] = 0]
  IN  [s EXCEPT !.possible_vals =
         clear_box(clear_col(clear_row(pv0, row, val_mask), col, val_mask),
                   start_row, start_col, val_mask)]

place_value(s, row, col, val) ==
  mark_value_invalid([s EXCEPT !.board[row + 1][col + 1] = val], row, col, val)

\* the marking loop of __init__ over the cells (r, c .. 8) of one row
RECURSIVE init_row(_, _, _)
init_row(s, r, c) ==
  IF c = Len(s.board[r + 1]) THEN s
  ELSE LET val == s.board[r + 1][c + 1]
       IN  init_row(IF val # 0 THEN mark_value_invalid(s, r, c, val) ELSE s, r, c + 1)

\* the marking loop of __init__ over the rows r .. 8
RECURSIVE init_rows(_, _)
init_rows(s, r) == IF r = Len(s.board) THEN s ELSE init_rows(init_row(s, r, 0), r + 1)

BoardState(csvdata) ==
  init_rows([board |-> csvdata, possible_vals |-> Rows(ALL_VALID)], 0)

\* sum(map(bool, row)) for the cells c .. 8 of a row
RECURSIVE count_row(_, _)
count_row(row, c) ==
  IF c = Len(row) THEN 0 ELSE (IF row[c + 1] # 0 THEN 1 ELSE 0) + count_row(row, c + 1)

RECURSIVE count_rows(_, _)
count_rows(board, r) ==
  IF r = Len(board) THEN 0 ELSE count_row(board[r + 1], 0) + count_rows(board, r + 1)

get_dist_to_goal(s) == count_rows(s.board, 0)

is_complete(s) == get_dist_to_goal(s) = 0

get_scored_next_steps(s) ==
  {<<popcount(s.possible_vals[x[1] + 1][x[2] + 1]), x[1], x[2],
     get_vals_as_list(s.possible_vals[x[1] + 1][x[2] + 1])>> :
     x \in {y \in Idx \X Idx : popcount(s.possible_vals[y[1] + 1][y[2] + 1]) # 0}}

TupleLess(a, b) ==
  \/ a[1] < b[1]
  \/ a[1] = b[1] /\ a[2] < b[2]
  \/ a[1] = b[1] /\ a[2] = b[2] /\ a[3] < b[3]

StepsGet(steps) == CHOOSE t \in steps : \A u \in steps : u = t \/ TupleLess(t, u)

\* the inner loop of fast_forward over the cells (r, c .. 8) of one row; the
\* result is the board state and the cells_need_updating flag
RECURSIVE scan_row(_, _, _, _)
scan_row(s, r, c, updated) ==
  IF c = Len(s.possible_vals[r + 1]) THEN <<s, updated>>
  ELSE LET poss_vals == s.possible_vals[r + 1][c + 1]
       IN  IF popcount(poss_vals) = 1
           THEN scan_row(place_value(s, r, c, get_vals_as_list(poss_vals)[1]), r, c + 1, TRUE)
           ELSE scan_row(s, r, c + 1, updated)

\* the outer loop of fast_forward over the rows r .. 8
RECURSIVE scan_rows(_, _, _)
scan_rows(s, r, updated) ==
  IF r = Len(s.possible_vals) THEN <<s, updated>>
  ELSE LET res == scan_row(s, r, 0, updated)
       IN  scan_rows(res[1], r + 1, res[2])

\* a fast_forward that scans the board once
fast_forward_once(s) == scan_rows(s, 0, FALSE)[1]

RECURSIVE fast_forward(_)
fast_forward(s) ==
  LET res == scan_rows(s, 0, FALSE)
  IN  IF res[2] THEN fast_forward(res[1]) ELSE res[1]

\* The objects create_children works on are kept in a heap, a list of
\* BoardState values; a reference is an index into it, and self is heap[1].

\* a copy that is the copied object itself
deepcopy_alias(heap, ref) == [heap |-> heap, ref |-> ref]

\* deepcopy(self): a new object with the fields of heap[ref]
deepcopy(heap, ref) == [heap |-> Append(heap, heap[ref]), ref |-> Len(heap) + 1]

\* the loop of create_children over choices[i .. Len(choices)]; refs are the
\* references appended to children so far
RECURSIVE make_children(_, _, _, _, _, _)
make_children(heap, row, col, choices, i, refs) ==
  IF i > Len(choices) THEN [heap |-> heap, children |-> refs]
  ELSE LET child == deepcopy(heap, 1)
           placed == [child.heap EXCEPT ![child.ref] =
                        fast_forward(place_value(@, row, col, choices[i]))]
       IN  make_children(placed, row, col, choices, i + 1, Append(refs, child.ref))

\* the objects refs[i .. Len(refs)] refer to
RECURSIVE Deref(_, _, _)
Deref(heap, refs, i) ==
  IF i > Len(refs) THEN << >> ELSE <<heap[refs[i]]>> \o Deref(heap, refs, i + 1)

\* a call of s.create_children(): the object s after the call (self) and the
\* list the call returns (children)
call_create_children(s) ==
  LET next_steps == get_scored_next_steps(s)
  IN  IF next_steps # {}
      THEN LET t == StepsGet(next_steps)
               res == make_children(<<s>>, t[2], t[3], t[4], 1, << >>)
           IN  [self |-> res.heap[1], children |-> Deref(res.heap, res.children, 1)]
      ELSE [self |-> s, children |-> << >>]

create_children(s) == call_create_children(s).children

Str(s) == [k \in 1 .. (SIZE * SIZE) |-> s.board[((k - 1) \div SIZE) + 1][((k - 1) % SIZE) + 1]]

\* ------------------------------------------------------------------------
\* Solver
\* ------------------------------------------------------------------------
VARIABLES
  input,         \* the grid handed to BoardState(csvdata)
  start,         \* Solver.start (the object solve propagates in place)
  visited_set,   \* Solver.visited_set
  queue,         \* Solver.queue: the <<dist, state>> entries, in insertion order
  puzzle_state,  \* the local puzzle_state of solve; the returned state once pc = "done"
  children,      \* the list create_children returned in the last loop iteration
  pc,            \* "start", "loop", "done", "validated"
  run,           \* 1 for the first run of the program on input, 2 for the second
  first,         \* the board the first run returned (<< >> during the first run)
  solution,      \* the argument of validate_solution (<< >> before the call)
  outcome        \* what validate_solution did (<< >> before the call)

vars == <<input, start, visited_set, queue, puzzle_state, children, pc, run,
          first, solution, outcome>>

\* the frontier orders its entries by (dist, state); entries of equal dist are
\* ordered by comparing the BoardState objects, which define no comparison:
\* get() may hand out any entry of minimal dist
\* a get() that hands out any entry, whatever its dist
MinEntries_any(q) == 1 .. Len(q)

MinEntries(q) == {i \in 1 .. Len(q) : \A j \in 1 .. Len(q) : q[i][1] <= q[j][1]}

\* a get() that leaves the entry in the queue
QueueRemove_keeps(q, i) == q

QueueRemove(q, i) == SubSeq(q, 1, i - 1) \o SubSeq(q, i + 1, Len(q))

\* a put() that enters the state twice
QueuePut_twice(q, s) ==
  Append(Append(q, <<get_dist_to_goal(s), s>>), <<get_dist_to_goal(s), s>>)

QueuePut(q, s) == Append(q, <<get_dist_to_goal(s), s>>)

RECURSIVE PutChildren(_, _, _, _)
PutChildren(q, kids, visited, i) ==
  IF i > Len(kids) THEN q
  ELSE PutChildren(IF Str(kids[i]) \notin visited THEN QueuePut(q, kids[i]) ELSE q,
                   kids, visited, i + 1)

\* the state after start = BoardState(csvdata) and Solver(start)
Construct(csvdata) ==
  /\ input = csvdata
  /\ start = BoardState(csvdata)
  /\ visited_set = {}
  /\ queue = << >>
  /\ puzzle_state = start
  /\ children = << >>
  /\ pc = "start"
  /\ run = 1
  /\ first = << >>
  /\ solution = << >>
  /\ outcome = << >>

Init == \E csvdata \in Inputs : Construct(csvdata)

SolveBegin ==
  /\ pc = "start"
  /\ LET s == fast_forward(start)
     IN  /\ start' = s
         /\ puzzle_state' = s
         /\ queue' = QueuePut(queue, s)
  /\ pc' = "loop"
  /\ UNCHANGED <<input, visited_set, children, run, first, solution, outcome>>

SolveLoop ==
  /\ pc = "loop"
  /\ ~ is_complete(puzzle_state)
  /\ Len(queue) > 0
  /\ \E i \in MinEntries(queue) :
       LET popped == queue[i][2]
           visited == visited_set \cup {Str(popped)}
           res == call_create_children(popped)
           kids == res.children
           q == PutChildren(QueueRemove(queue, i), kids, visited, 1)
       IN  /\ puzzle_state' = res.self
           \* the first entry popped is the object self.start refers to
           /\ start' = IF visited_set = {} THEN res.self ELSE start
           /\ visited_set' = visited
           /\ children' = kids
           /\ queue' = q
  /\ UNCHANGED <<input, pc, run, first, solution, outcome>>

SolveReturn ==
  /\ pc = "loop"
  /\ is_complete(puzzle_state) \/ Len(queue) = 0
  /\ pc' = "done"
  /\ UNCHANGED <<input, start, visited_set, queue, puzzle_state, children, run,
                 first, solution, outcome>>

\* ------------------------------------------------------------------------
\* validate_solution
\* ------------------------------------------------------------------------
sum(row) == row[1] + row[2] + row[3] + row[4] + row[5] + row[6] + row[7] + row[8] + row[9]

col_total(board, col) ==
  board[1][col + 1] + board[2][col + 1] + board[3][col + 1] + board[4][col + 1]
    + board[5][col + 1] + board[6][col + 1] + board[7][col + 1] + board[8][col + 1]
    + board[9][col + 1]

section_total(board, row_start, col_start) ==
  (board[row_start + 1][col_start + 1] + board[row_start + 1][col_start + 2]
     + board[row_start + 1][col_start + 3])
  + (board[row_start + 2][col_start + 1] + board[row_start + 2][col_start + 2]
     + board[row_start + 2][col_start + 3])
  + (board[row_start + 3][col_start + 1] + board[row_start + 3][col_start + 2]
     + board[row_start + 3][col_start + 3])

\* what a call ends with: the exception raised, or no exception (the call returns)
Raise(type, msg, args) == [raised |-> type, msg |-> msg, args |-> args]

Returns == [raised |-> "none", msg |-> "", args |-> << >>]

ManipulatedMsg == "Initial board has been manipulated!"

ColMsg == "Col total for column %d doesn't add up!"

SectionMsg == "Section total for section at (%d, %d) doesn't add up!"

\* line 80 formats the message with the row (a list) for %d: the % operator
\* raises TypeError and the row message is never built
RowFormatError == "%d format: a number is required, not list"

Manipulated(st, board) ==
  {x \in Idx \X Idx : /\ st.board[x[1] + 1][x[2] + 1] # 0
                      /\ st.board[x[1] + 1][x[2] + 1] # board[x[1] + 1][x[2] + 1]}

BadRows(board) == {r \in Idx : sum(board[r + 1]) # ROW_TOTAL}

BadCols(board) == {c \in Idx : col_total(board, c) # ROW_TOTAL}

SectionStarts == {BOX * i : i \in 0 .. ((SIZE \div BOX) - 1)}

BadSections(board) ==
  {x \in SectionStarts \X SectionStarts : section_total(board, x[1], x[2]) # ROW_TOTAL}

First(S) == CHOOSE x \in S : \A y \in S : x <= y

FirstPair(S) ==
  CHOOSE x \in S : \A y \in S : x[1] < y[1] \/ (x[1] = y[1] /\ x[2] <= y[2])

\* st is Solver.start, board the board of the solution argument
validate_solution(st, board) ==
  IF Manipulated(st, board) # {} THEN Raise("Exception", ManipulatedMsg, << >>)
  ELSE IF BadRows(board) # {} THEN Raise("TypeError", RowFormatError, << >>)
  ELSE IF BadCols(board) # {} THEN Raise("Exception", ColMsg, <<First(BadCols(board))>>)
  ELSE IF BadSections(board) # {}
       THEN Raise("Exception", SectionMsg, FirstPair(BadSections(board)))
       ELSE Returns

\* the boards validate_solution is called with: the board solve returned, and
\* that board with one Pool cell emptied or changed to the next digit
Candidates(board) ==
  {board} \cup {[board EXCEPT ![Pool[i][1] + 1][Pool[i][2] + 1] = 0] : i \in 1 .. Len(Pool)}
          \cup {[board EXCEPT ![Pool[i][1] + 1][Pool[i][2] + 1] = (@ % SIZE) + 1] :
                  i \in 1 .. Len(Pool)}

Validate ==
  /\ pc = "done"
  /\ \E board \in Candidates(puzzle_state.board) :
       /\ solution' = board
       /\ outcome' = validate_solution(start, board)
  /\ pc' = "validated"
  /\ UNCHANGED <<input, start, visited_set, queue, puzzle_state, children, run, first>>

\* the program is run a second time on the same input
Rerun ==
  /\ pc = "done"
  /\ run = 1
  /\ start' = BoardState(input)
  /\ puzzle_state' = start'
  /\ visited_set' = {}
  /\ queue' = << >>
  /\ children' = << >>
  /\ pc' = "start"
  /\ run' = 2
  /\ first' = puzzle_state.board
  /\ UNCHANGED <<input, solution, outcome>>

Next == SolveBegin \/ SolveLoop \/ SolveReturn \/ Validate \/ Rerun

Spec == Init /\ [][Next]_vars

\* one run of solve on its own
SolveNext == SolveBegin \/ SolveLoop \/ SolveReturn

SolveSpec == Init /\ [][SolveNext]_vars

\* ------------------------------------------------------------------------
\* The grid operations on their own: a grid state (puzzle_state) constructed
\* from one of the GridInputs, then any sequence of place_value on an unfilled
\* Pool cell with one of its candidates, fast_forward, and create_children
\* followed by the choice of a child.  place_value and create_children are
\* started on a grid that holds fewer than MaxPlaced cells more than the input.
\* ------------------------------------------------------------------------
PlaceCells == {Pool[i] : i \in 1 .. Len(Pool)}

Filled(grid) == {x \in Idx \X Idx : grid[x[1] + 1][x[2] + 1] # 0}

Placed == Cardinality(Filled(puzzle_state.board)) - Cardinality(Filled(input))

GridPlace ==
  /\ Placed < MaxPlaced
  /\ \E x \in PlaceCells : \E val \in Digits :
       /\ puzzle_state.board[x[1] + 1][x[2] + 1] = 0
       /\ Bit(puzzle_state.possible_vals[x[1] + 1][x[2] + 1], val - 1) = 1
       /\ puzzle_state' = place_value(puzzle_state, x[1], x[2], val)
  /\ UNCHANGED <<input, start, visited_set, queue, children, pc, run, first,
                 solution, outcome>>

GridPropagate ==
  /\ puzzle_state' = fast_forward(puzzle_state)
  /\ UNCHANGED <<input, start, visited_set, queue, children, pc, run, first,
                 solution, outcome>>

GridExpand ==
  /\ Placed < MaxPlaced
  /\ LET kids == create_children(puzzle_state)
     IN  /\ children' = kids
         /\ \E i \in 1 .. Len(kids) : puzzle_state' = kids[i]
  /\ UNCHANGED <<input, start, visited_set, queue, pc, run, first, solution, outcome>>

GridNext == GridPlace \/ GridPropagate \/ GridExpand

GridInit == \E csvdata \in GridInputs : Construct(csvdata)

GridSpec == GridInit /\ [][GridNext]_vars

\* ------------------------------------------------------------------------
\* Vocabulary of the properties
\* ------------------------------------------------------------------------
Cells == Idx \X Idx

At(grid, x) == grid[x[1] + 1][x[2] + 1]

RowGroup(r) == {<<r, c>> : c \in Idx}

ColGroup(c) == {<<r, c>> : r \in Idx}

BoxGroup(x) == {<<x[1] + i, x[2] + j>> : i \in 0 .. (BOX - 1), j \in 0 .. (BOX - 1)}

Groups ==
  {RowGroup(r) : r \in Idx} \cup {ColGroup(c) : c \in Idx}
    \cup {BoxGroup(x) : x \in SectionStarts \X SectionStarts}

\* every row, column and box of the grid is a permutation of 1 .. 9
IsSolved(grid) == \A g \in Groups : {At(grid, x) : x \in g} = Digits

\* two cells of one row, column or box hold the same digit
HasDuplicate(grid) ==
  \E g \in Groups : \E x \in g : \E y \in g :
     x # y /\ At(grid, x) # 0 /\ At(grid, x) = At(grid, y)

Unknowns(grid) == {x \in Cells : At(grid, x) = 0}

\* every filled cell of grid a holds the same value in grid b
Extends(a, b) == \A x \in Cells : At(a, x) # 0 => At(b, x) = At(a, x)

QueueStates == {queue[i][2] : i \in 1 .. Len(queue)}

ChildStates == {children[i] : i \in 1 .. Len(children)}

\* the grid states that exist in a state of the run
GridStates == {start, puzzle_state} \cup QueueStates \cup ChildStates

\* ------------------------------------------------------------------------
\* Properties
\* ------------------------------------------------------------------------

\* BaseRows with the digits 6 and 7 of the Pool cells exchanged
SwappedRows == Overwrite(BaseRows, Pool, <<7, 6, 6, 7>>, 1)

\* the input has a valid completion (one of the two valid grids of the model)
Solvable(grid) == \E g \in {BaseRows, SwappedRows} : IsSolved(g) /\ Extends(grid, g)

\* C1: for a solvable input grid (the all-zero grid included), the grid solve
\* returns has every row, column and box a permutation of 1 .. 9.
C1_Completeness == (pc = "done" /\ Solvable(input)) => IsSolved(puzzle_state.board)

\* C2: givens are never overwritten: every grid state of the run (the
\* propagated start, the popped state, the frontier entries, the children)
\* holds the input's value in every cell that is non-zero in the input, and
\* every child holds its parent's value in every filled cell of the parent.
C2_GivensNeverOverwritten ==
  /\ \A s \in GridStates : Extends(input, s.board)
  /\ \A s \in QueueStates \cup {puzzle_state} : Extends(start.board, s.board)
  /\ \A s \in ChildStates : Extends(puzzle_state.board, s.board)

C2_Witness ==
  /\ pc = "loop"
  /\ Len(children) >= 2
  /\ Unknowns(input) # {}
  /\ Unknowns(input) # Cells
  /\ \E s \in ChildStates : Unknowns(s.board) # Unknowns(puzzle_state.board)

\* C3: solve never returns a grid that still contains an unknown cell: when
\* the frontier drains before a grid without a 0 was found, the run ends with
\* a failure, not with a returned grid.
C3_NoPartialResult ==
  (pc = "done" /\ Len(queue) = 0) => Unknowns(puzzle_state.board) = {}

\* the weight of a frontier entry: more than the weight of any 9 grids with
\* fewer unknown cells
Weight(s) == (SIZE + 1) ^ Cardinality(Unknowns(s.board))

RECURSIVE SumWeights(_, _)
SumWeights(q, i) == IF i > Len(q) THEN 0 ELSE Weight(q[i][2]) + SumWeights(q, i + 1)

\* a natural number that measures the work left in the frontier
Variant == SumWeights(queue, 1)

\* C4: solve terminates on every input grid, also when the givens conflict
\* or the grid has no completion: every iteration of the search loop makes
\* the natural number Variant strictly smaller, so the loop cannot iterate
\* forever.
C4_Termination == [][(pc = "loop" /\ pc' = "loop") => Variant' < Variant]_vars

C4_Witness ==
  /\ pc = "done"
  /\ HasDuplicate(input)
  /\ Unknowns(puzzle_state.board) # {}
  /\ Cardinality(visited_set) >= 2

\* C5: two runs of solve on the same input grid (here: one that has a valid
\* completion) return the same grid.
C5_Determinism ==
  (pc = "done" /\ run = 2 /\ Solvable(input)) => puzzle_state.board = first

\* C6: is_complete() is true of a grid state exactly when no cell of it is 0.
C6_IsComplete ==
  \A s \in GridStates : is_complete(s) <=> Unknowns(s.board) = {}

\* C7: for an input grid with two identical digits in one row, column or
\* box, the grid solve returns does not pass validate_solution.
C7_ContradictionDetected ==
  (pc = "validated" /\ HasDuplicate(input) /\ solution = puzzle_state.board)
     => outcome.raised # "none"

\* C8: validate_solution reports a manipulated given exactly when some cell
\* that is non-zero in the original input holds another value in the
\* candidate; a cell that is 0 in the input never triggers the report.
C8_GivenCheckIsRelativeToInput ==
  pc = "validated" =>
     (outcome.msg = ManipulatedMsg
        <=> \E x \in Cells : At(input, x) # 0 /\ At(solution, x) # At(input, x))

RowMsg == "Row total for row %d doesn't add up!"

\* C9: when all givens of the input are preserved and some row of the
\* candidate does not sum to 45, validate_solution ends with the row error
\* that names the index of the first such row.
C9_RowSumMismatch ==
  (pc = "validated" /\ Extends(input, solution) /\ BadRows(solution) # {})
     => outcome = Raise("Exception", RowMsg, <<First(BadRows(solution))>>)

\* the digits a candidate bit string stands for
CandidateSet(bstr) == {d \in Digits : Bit(bstr, d - 1) = 1}

\* the digits of the filled cells in the row, the column and the box of x
PeerDigits(grid, x) ==
  {At(grid, y) : y \in RowGroup(x[1]) \cup ColGroup(x[2])
                       \cup BoxGroup(<<BOX * (x[1] \div BOX), BOX * (x[2] \div BOX)>>)} \ {0}

LocallyConsistent(s) ==
  \A x \in Cells :
     IF At(s.board, x) # 0
     THEN At(s.possible_vals, x) = 0
     ELSE /\ At(s.possible_vals, x) \in 0 .. ALL_VALID
          /\ CandidateSet(At(s.possible_vals, x)) = Digits \ PeerDigits(s.board, x)

\* C10: in every grid state reached by construction followed by any sequence
\* of place_value (on an unfilled cell, with one of its candidates),
\* fast_forward and create_children, a filled cell has no candidate and the
\* candidates of an unfilled cell are exactly the digits that no filled cell
\* of its row, column or box holds.
C10_LocalConsistency == LocallyConsistent(puzzle_state)

C10_Witness ==
  /\ Placed >= 2
  /\ Len(children) >= 2
  /\ \E x \in Cells :
       /\ At(puzzle_state.board, x) = 0
       /\ Cardinality(CandidateSet(At(puzzle_state.possible_vals, x))) \in 1 .. 8

\* the unfilled cells of a grid state that have no candidate left
DeadCells(s) == {x \in Cells : At(s.board, x) = 0 /\ At(s.possible_vals, x) = 0}

\* C11: when the most constrained unfilled cell of the state solve expands
\* has an empty candidate set, create_children returns no children.
C11_DeadBranch ==
  (pc = "loop" /\ Str(puzzle_state) \in visited_set /\ DeadCells(puzzle_state) # {})
     => children = << >>

\* C12: no grid is expanded more than once in one run of solve: the key
\* (__str__) of the entry an iteration pops and expands is not yet in
\* visited_set, the set of the keys of the entries expanded before.
C12_ExpandedOnce ==
  [][(pc = "loop" /\ pc' = "loop") => Str(puzzle_state') \notin visited_set]_vars

C12_Witness ==
  /\ pc = "done"
  /\ Cardinality(visited_set) >= 3
  /\ Len(children) = 0

\* a key (__str__) without a 0: the grid it stands for has every cell filled
CompleteKey(key) == \A k \in 1 .. Len(key) : key[k] # 0

\* C13: solve halts at the first complete state it pops: once a state with
\* every cell filled was popped, no other entry is popped, so every complete
\* grid among the popped ones (visited_set) is the state solve holds.
C13_HaltsAtFirstComplete ==
  \A key \in visited_set : CompleteKey(key) => key = Str(puzzle_state)

\* the cells whose candidate set holds exactly one digit
Singles(s) == {x \in Cells : popcount(At(s.possible_vals, x)) = 1}

\* C14: fast_forward ends in a fixed point: every grid state it returned (the
\* state solve puts first, every child of create_children) has no cell with
\* exactly one candidate, and a further fast_forward leaves its board and its
\* candidates as they are.
C14_FixedPoint ==
  \A s \in QueueStates \cup ChildStates : Singles(s) = {} /\ fast_forward(s) = s

C14_Witness ==
  /\ pc = "loop"
  /\ Singles(BoardState(input)) # {}
  /\ \E s \in ChildStates :
       Cardinality(Unknowns(puzzle_state.board)) - Cardinality(Unknowns(s.board)) >= 3

\* cell x comes before cell y in row-major order, or is y
RowMajorLeq(x, y) == x[1] < y[1] \/ (x[1] = y[1] /\ x[2] <= y[2])

\* the unfilled cell with the fewest candidates, the first such cell in
\* row-major order
MostConstrained(s) ==
  CHOOSE x \in Unknowns(s.board) : \A y \in Unknowns(s.board) :
     \/ popcount(At(s.possible_vals, x)) < popcount(At(s.possible_vals, y))
     \/ /\ popcount(At(s.possible_vals, x)) = popcount(At(s.possible_vals, y))
        /\ RowMajorLeq(x, y)

\* C15: when create_children is called on a state during solve and returns
\* children, the branched cell is the most constrained unfilled cell (the
\* first in row-major order), its candidate set V has 2 to 9 members, and
\* there are |V| children, one for every v in V with v placed at that cell.
C15_MRVBranching ==
  (pc = "loop" /\ Str(puzzle_state) \in visited_set /\ children # << >>)
     => LET x == MostConstrained(puzzle_state)
            V == CandidateSet(At(puzzle_state.possible_vals, x))
        IN  /\ Cardinality(V) \in 2 .. SIZE
            /\ Len(children) = Cardinality(V)
            /\ {At(children[k].board, x) : k \in 1 .. Len(children)} = V

\* the children create_children has to return for a parent: for every
\* candidate of the branched cell, that candidate placed on the parent as it
\* was before the call, and propagated
RECURSIVE ChildrenOf(_, _, _)
ChildrenOf(parent, t, k) ==
  IF k > Len(t[4]) THEN << >>
  ELSE <<fast_forward(place_value(parent, t[2], t[3], t[4][k]))>> \o ChildrenOf(parent, t, k + 1)

\* C16: create_children leaves the parent unchanged and the children are
\* independent: after the call the popped state has the board and the
\* candidates it had in the frontier, and every child is the parent of before
\* the call with one candidate placed, whatever was placed on its siblings.
C16_ParentUnchanged ==
  [][(pc = "loop" /\ pc' = "loop") =>
       \E i \in MinEntries(queue) :
          /\ puzzle_state' = queue[i][2]
          /\ children' = IF get_scored_next_steps(queue[i][2]) = {} THEN << >>
                         ELSE ChildrenOf(queue[i][2],
                                         StepsGet(get_scored_next_steps(queue[i][2])), 1)]_vars

C16_Witness ==
  /\ pc = "loop"
  /\ Str(puzzle_state) \in visited_set
  /\ Len(children) >= 2
  /\ children[1] # children[2]
  /\ Unknowns(children[1].board) # {}

\* the valid grids that complete the input; an input of the model other than
\* the all-zero grid fixes every cell but the Pool and BlankSeq cells, so it
\* has no completion besides BaseRows and SwappedRows
Completions(grid) == {g \in {BaseRows, SwappedRows} : IsSolved(g) /\ Extends(grid, g)}

\* C17: for an input grid with at least one given, without a digit twice in a
\* row, column or box, and with a valid completion, solve returns a filled
\* grid whose rows, columns and boxes are permutations of 1 .. 9 and that
\* holds every given; when the completion is unique, that completion.
C17_SolvesProperPuzzles ==
  (pc = "done" /\ Unknowns(input) # Cells /\ ~ HasDuplicate(input) /\ Completions(input) # {})
     => /\ IsSolved(puzzle_state.board)
        /\ Extends(input, puzzle_state.board)
        /\ puzzle_state.board \in Completions(input)

C17_Witness ==
  /\ pc = "done"
  /\ ~ HasDuplicate(input)
  /\ Cardinality(Unknowns(input)) \in 3 .. 4
  /\ Cardinality(Completions(input)) = 1
  /\ puzzle_state.board \in Completions(input)

\* C18: during solve the entries are popped in non-decreasing order of their
\* number of filled cells (get_dist_to_goal), every child has more filled
\* cells than its parent, and the key of no child is in visited_set when the
\* child is generated.
C18_PopOrder ==
  [][(pc = "loop" /\ pc' = "loop") =>
       /\ get_dist_to_goal(puzzle_state') >= get_dist_to_goal(puzzle_state)
       /\ \A k \in 1 .. Len(children') :
            /\ get_dist_to_goal(children'[k]) > get_dist_to_goal(puzzle_state')
            /\ Str(children'[k]) \notin visited_set']_vars

C18_Witness ==
  /\ pc = "loop"
  /\ Cardinality(visited_set) >= 2
  /\ Len(queue) >= 1
  /\ queue[1][1] > get_dist_to_goal(puzzle_state)
  /\ get_dist_to_goal(puzzle_state) > get_dist_to_goal(start)

====
